---------------------------- MODULE Spec2Model ----------------------------
(***************************************************************************)
(* Model of src/main.py: one run of add_server_time() followed by the      *)
(* process exit of the __main__ block.                                      *)
(*                                                                          *)
(* The browser engine (playwright) is the external collaborator.  Every    *)
(* call into it is one step of the model whose outcome the collaborator    *)
(* chooses: "ok" (the call returns), "timeout" (it raises                  *)
(* PlaywrightTimeoutError) or "error" (it raises any other Exception).     *)
(* Values the collaborator returns (the page URL, element counts, texts)   *)
(* are chosen from small sets.                                             *)
(*                                                                          *)
(* Strings are sequences of one-character strings.  An optional string     *)
(* (the result of os.environ.get, or "str | None") is None or Some(s).     *)
(***************************************************************************)
EXTENDS Naturals, Sequences, FiniteSets, TLC

(***************************************************************************)
(* Strings                                                                  *)
(***************************************************************************)
None == <<>>
Some(s) == <<s>>
Val(v) == v[1]

\* Python truthiness of a "str | None" value: None and "" are falsy.
Truthy(v) == v # None /\ Val(v) # <<>>

IsSpace(c) == c = " "

RECURSIVE LStrip(_)
LStrip(s) == IF s # <<>> /\ IsSpace(Head(s)) THEN LStrip(Tail(s)) ELSE s

RECURSIVE RStrip(_)
RStrip(s) ==
    IF s # <<>> /\ IsSpace(s[Len(s)]) THEN RStrip(SubSeq(s, 1, Len(s) - 1)) ELSE s

\* str.strip()
Strip(s) == RStrip(LStrip(s))

\* s[i:] of Python with the 1-based index i of TLA+
From(s, i) == SubSeq(s, i, Len(s))

\* "sub in s"
Contains(s, sub) ==
    \E i \in 1..(Len(s) + 1) :
        /\ i + Len(sub) - 1 <= Len(s)
        /\ SubSeq(s, i, i + Len(sub) - 1) = sub

\* s.find(c) + 1: the first position of the character c in s, 0 when absent
Find(s, c) ==
    IF \E i \in 1..Len(s) : s[i] = c
    THEN CHOOSE i \in 1..Len(s) : s[i] = c /\ \A j \in 1..(i - 1) : s[j] # c
    ELSE 0

\* s.rfind(c) + 1: the last position of the character c in s, 0 when absent
RFind(s, c) ==
    IF \E i \in 1..Len(s) : s[i] = c
    THEN CHOOSE i \in 1..Len(s) : s[i] = c /\ \A j \in (i + 1)..Len(s) : s[j] # c
    ELSE 0

Upper == {"H", "S", "U", "P"}
Letters == {"h", "s", "o", "c", "k", "u", "p", "t"} \cup Upper
Digits == {"0", "1", "5", "8"}

LowerChar(c) ==
    CASE c = "H" -> "h"
      [] c = "S" -> "s"
      [] c = "U" -> "u"
      [] c = "P" -> "p"
      [] OTHER -> c

\* str.lower()
Lower(s) == [i \in 1..Len(s) |-> LowerChar(s[i])]

DigitVal(c) ==
    CASE c = "0" -> 0
      [] c = "1" -> 1
      [] c = "5" -> 5
      [] c = "8" -> 8

\* int(s) for a string of decimal digits
RECURSIVE ToInt(_)
ToInt(s) ==
    IF s = <<>> THEN 0
    ELSE 10 * ToInt(SubSeq(s, 1, Len(s) - 1)) + DigitVal(s[Len(s)])

DigitChar(d) ==
    CASE d = 0 -> "0" [] d = 1 -> "1" [] d = 2 -> "2" [] d = 3 -> "3"
      [] d = 4 -> "4" [] d = 5 -> "5" [] d = 6 -> "6" [] d = 7 -> "7"
      [] d = 8 -> "8" [] d = 9 -> "9"

\* str(n) for a natural number, as the f-string of line 50 formats the port
RECURSIVE ToStr(_)
ToStr(n) ==
    IF n < 10 THEN <<DigitChar(n)>>
    ELSE ToStr(n \div 10) \o <<DigitChar(n % 10)>>

(***************************************************************************)
(* Proxy resolution (lines 6-59)                                            *)
(***************************************************************************)
ProxyKeys ==
    <<"SOCKS5_PROXY", "ALL_PROXY", "HTTPS_PROXY", "https_proxy",
      "HTTP_PROXY", "http_proxy">>

CredentialKeys == {"REMEMBER_WEB_COOKIE", "PTERODACTYL_EMAIL", "PTERODACTYL_PASSWORD"}

EnvKeys == CredentialKeys \cup {ProxyKeys[i] : i \in 1..Len(ProxyKeys)}

\* lines 25-29: the first key, in list order, whose value is set, non-empty and
\* not only whitespace; its stripped value.  None when there is no such key.
RECURSIVE ScanKeys(_, _)
ScanKeys(env, i) ==
    IF i > Len(ProxyKeys) THEN None
    ELSE LET v == env[ProxyKeys[i]]
         IN  IF Truthy(v) /\ Strip(Val(v)) # <<>>
             THEN Some(Strip(Val(v)))
             ELSE ScanKeys(env, i + 1)

\* Variant of _get_proxy_server_from_env: the first key whose value is set and
\* not empty wins, whitespace-only or not ("if v" for "if v and v.strip()").
RECURSIVE ScanSetKeys(_, _)
ScanSetKeys(env, i) ==
    IF i > Len(ProxyKeys) THEN None
    ELSE LET v == env[ProxyKeys[i]]
         IN  IF Truthy(v)
             THEN (IF Strip(Val(v)) = <<>> THEN None ELSE Some(Strip(Val(v))))
             ELSE ScanSetKeys(env, i + 1)

_get_first_set_proxy(env) == ScanSetKeys(env, 1)

_get_proxy_server_from_env(env) == ScanKeys(env, 1)

SchemeSep == <<":", "/", "/">>
Socks5h == <<"s", "o", "c", "k", "s", "5", "h">>
SchemeChars == Letters \cup Digits \cup {"+", "-", "."}

\* Variant of WithDefaultScheme: a string without "://" is taken as socks5
\* ("socks5://" for the "socks5h://" of line 44).
WithDefaultSocks5(url) ==
    IF Contains(url, SchemeSep)
    THEN url ELSE <<"s", "o", "c", "k", "s", "5">> \o SchemeSep \o url

\* lines 43-44
WithDefaultScheme(url) ==
    IF Contains(url, SchemeSep) THEN url ELSE Socks5h \o SchemeSep \o url

\* urllib.parse.urlsplit, for URLs over the characters of the model (no
\* '[', ']', '%', '?', '#', no control characters): the scheme is the text
\* before the first ':' when it starts with a letter and holds only scheme
\* characters, lower-cased.
HasScheme(url) ==
    LET i == Find(url, ":")
    IN  /\ i > 1
        /\ url[1] \in Letters
        /\ \A j \in 1..(i - 1) : url[j] \in SchemeChars

UrlScheme(url) ==
    IF HasScheme(url) THEN Lower(SubSeq(url, 1, Find(url, ":") - 1)) ELSE <<>>

AfterScheme(url) == IF HasScheme(url) THEN From(url, Find(url, ":") + 1) ELSE url

\* the netloc: what follows a leading "//", up to the first '/'
UrlNetloc(url) ==
    LET rest == AfterScheme(url)
    IN  IF Len(rest) >= 2 /\ SubSeq(rest, 1, 2) = <<"/", "/">>
        THEN LET r == From(rest, 3)
                 i == Find(r, "/")
             IN  IF i = 0 THEN r ELSE SubSeq(r, 1, i - 1)
        ELSE <<>>

\* netloc.rpartition('@')
HaveInfo(netloc) == RFind(netloc, "@") > 0
Userinfo(netloc) == SubSeq(netloc, 1, RFind(netloc, "@") - 1)
Hostinfo(netloc) == From(netloc, RFind(netloc, "@") + 1)

\* hostinfo.partition(':')
HostText(netloc) ==
    LET h == Hostinfo(netloc)
        i == Find(h, ":")
    IN  IF i = 0 THEN h ELSE SubSeq(h, 1, i - 1)

PortText(netloc) ==
    LET h == Hostinfo(netloc)
        i == Find(h, ":")
    IN  IF i = 0 THEN <<>> ELSE From(h, i + 1)

\* SplitResult.hostname: None when empty, else lower-cased
UrlHostname(netloc) ==
    IF HostText(netloc) = <<>> THEN None ELSE Some(Lower(HostText(netloc)))

\* SplitResult.port raises ValueError for a port that is not all digits or is
\* above 65535
PortRaises(netloc) ==
    LET p == PortText(netloc)
    IN  /\ p # <<>>
        /\ \/ \E i \in 1..Len(p) : p[i] \notin Digits
           \/ ToInt(p) > 65535

\* SplitResult.username / .password: userinfo.partition(':')
UrlUsername(netloc) ==
    IF ~HaveInfo(netloc) THEN None
    ELSE LET u == Userinfo(netloc)
             i == Find(u, ":")
         IN  Some(IF i = 0 THEN u ELSE SubSeq(u, 1, i - 1))

UrlPassword(netloc) ==
    IF ~HaveInfo(netloc) THEN None
    ELSE LET u == Userinfo(netloc)
             i == Find(u, ":")
         IN  IF i = 0 THEN None ELSE Some(From(u, i + 1))

NoProxy ==
    [kind |-> "none", server |-> <<>>, username |-> None, password |-> None,
     error |-> "", detail |-> <<>>]

\* lines 31-59.  kind "none": the function returns None; "cfg": it returns the
\* dict (an absent key is None); "ValueError": it raises, error and detail being
\* the exception's message.
_playwright_proxy_config(proxy_url) ==
    IF ~Truthy(proxy_url) THEN NoProxy
    ELSE
      LET url    == LStrip(WithDefaultScheme(Val(proxy_url)))
          netloc == UrlNetloc(url)
      IN  IF UrlScheme(url) = <<>> \/ UrlHostname(netloc) = None
          THEN [NoProxy EXCEPT !.kind = "ValueError", !.error = "bad_format",
                               !.detail = WithDefaultScheme(Val(proxy_url))]
          ELSE IF PortRaises(netloc)
          THEN [NoProxy EXCEPT !.kind = "ValueError", !.error = "bad_port",
                               !.detail = PortText(netloc)]
          ELSE IF PortText(netloc) = <<>> \/ ToInt(PortText(netloc)) = 0
          THEN [NoProxy EXCEPT !.kind = "ValueError", !.error = "bad_format",
                               !.detail = WithDefaultScheme(Val(proxy_url))]
          ELSE [kind |-> "cfg",
                server |-> UrlScheme(url) \o SchemeSep \o Val(UrlHostname(netloc))
                             \o <<":">> \o ToStr(ToInt(PortText(netloc))),
                username |-> IF Truthy(UrlUsername(netloc))
                             THEN UrlUsername(netloc) ELSE None,
                password |-> IF Truthy(UrlPassword(netloc))
                             THEN UrlPassword(netloc) ELSE None,
                error |-> "", detail |-> <<>>]

(***************************************************************************)
(* The run: add_server_time (lines 61-239) and __main__ (lines 241-245)     *)
(***************************************************************************)
VARIABLES
    environ,              \* os.environ: name -> None | Some(string)
    pc,                   \* the line the run is at
    remember_web_cookie,  \* locals of add_server_time
    pterodactyl_email,
    pterodactyl_password,
    proxy_cfg,
    page_url,             \* page.url, as the collaborator reports it
    calls,                \* every call into the collaborator and read of page.url
    log,                  \* every line printed, in order
    exc,                  \* the exception the handler of line 234 caught
    pending,              \* what the try block is leaving with, for the finally
    ret,                  \* how add_server_time ended
    exit_code             \* the process exit status

vars ==
    <<environ, pc, remember_web_cookie, pterodactyl_email, pterodactyl_password,
      proxy_cfg, page_url, calls, log, exc, pending, ret, exit_code>>

\* URLs are sequences of path segments.
IpCheckUrl == <<"https:", "api.ipify.org">>
HomeUrl    == <<"https:", "hub.weirdhost.xyz">>
server_url == <<"https:", "hub.weirdhost.xyz", "server", "a36fc168">>
login_url  == <<"https:", "hub.weirdhost.xyz", "auth", "login">>
OtherUrl   == <<"https:", "hub.weirdhost.xyz", "account">>
AboutBlank == <<"about:blank">>

\* "auth/login" in page.url
HasLoginRoute(url) == Contains(url, <<"auth", "login">>)

\* Where a navigation to url may end: there, on the login route, or elsewhere.
Landings(url) ==
    IF url = IpCheckUrl THEN {IpCheckUrl} ELSE {url, login_url, OtherUrl}

email_selector == <<"input[name=username]">>
password_selector == <<"input[name=password]">>
login_button_selector == <<"button[type=submit]">>
danger == <<".alert.alert-danger">>
add_button == <<"button:has-text(add time)">>

\* How a call into the collaborator ends.  Where the code tells the timeout
\* from other exceptions (page.goto in safe_goto, the wait of line 180, the
\* calls of lines 209-216) the outcomes are Outcomes; elsewhere "error" stands
\* for any exception, a PlaywrightTimeoutError included.
Outcomes == {"ok", "timeout", "error"}
Ends     == {"ok", "error"}

\* A call into the collaborator: what was called, on what, how it ended and,
\* when it returned a value the run reads, that value.
RecV(op, arg, out, val) == [op |-> op, arg |-> arg, out |-> out, val |-> val]
Rec(op, arg, out) == RecV(op, arg, out, <<>>)
Line(msg, arg) == [msg |-> msg, arg |-> arg]

\* A read of page.url (lines 147, 195, 199) and the URL the collaborator gave.
UrlRead(url) == RecV("url", <<>>, "ok", url)

\* Environments of the runs checked.
CredentialValues == {None, Some(<<>>), Some(<<"x">>)}

ProxySamples ==
    { <<"s", ":", "/", "/", "u", ":", "p", "@", "H", ":", "8", "0">>,
      <<"s", ":", "/", "/", "u", ":", "p", "@", "h">> }

ProxyEnvs ==
    { [k \in {ProxyKeys[i] : i \in 1..Len(ProxyKeys)} |-> None] }
    \cup
    { [k \in {ProxyKeys[i] : i \in 1..Len(ProxyKeys)} |->
          IF k = "ALL_PROXY" THEN Some(v) ELSE None] : v \in ProxySamples }
    \cup
    { [k \in {ProxyKeys[i] : i \in 1..Len(ProxyKeys)} |->
          IF k = "SOCKS5_PROXY" THEN Some(<<" ">>)
          ELSE IF k = "http_proxy" THEN Some(<<" ", "h", ":", "1", " ">>)
          ELSE None] }

(***************************************************************************)
(* Proxy strings: the runs of ParseSpec resolve one proxy string each, put  *)
(* together from an optional scheme, optional credentials, a host and a     *)
(* port (the shapes of the docstring of lines 14-17 and the comment of line *)
(* 42, and strings that miss or spoil one of the parts).                    *)
(***************************************************************************)
SchemeParts ==
    { [text |-> <<>>, scheme |-> Socks5h, valid |-> TRUE],
      [text |-> <<"s">> \o SchemeSep, scheme |-> <<"s">>, valid |-> TRUE],
      [text |-> <<"S">> \o SchemeSep, scheme |-> <<"S">>, valid |-> TRUE],
      [text |-> <<"1">> \o SchemeSep, scheme |-> <<"1">>, valid |-> FALSE] }

UserParts ==
    { [text |-> <<>>, username |-> None, password |-> None],
      [text |-> <<"u", "@">>, username |-> Some(<<"u">>), password |-> None],
      [text |-> <<"u", ":", "p", "@">>,
       username |-> Some(<<"u">>), password |-> Some(<<"p">>)],
      [text |-> <<":", "p", "@">>,
       username |-> Some(<<>>), password |-> Some(<<"p">>)] }

HostParts == { <<"h">>, <<"H">>, <<>> }

\* the text after the host's ':', None when there is no ':'
PortParts ==
    { None, Some(<<>>), Some(<<"1">>), Some(<<"0", "8">>), Some(<<"0">>),
      Some(<<"u">>), Some(<<"8", "8", "8", "8", "8">>) }

ProxyParts ==
    [scheme : SchemeParts, user : UserParts, host : HostParts, port : PortParts]

ProxyText(t) ==
    t.scheme.text \o t.user.text \o t.host
        \o (IF t.port = None THEN <<>> ELSE <<":">> \o Val(t.port))

KeySet == {ProxyKeys[i] : i \in 1..Len(ProxyKeys)}

\* the environment of a run with credentials and the proxy variables p
ProxyEnv(p) ==
    [k \in EnvKeys |->
        IF k \in KeySet THEN p[k]
        ELSE IF k = "REMEMBER_WEB_COOKIE" THEN None ELSE Some(<<"x">>)]

\* Values of the proxy variables in the runs of ScanSpec: unset, empty, only
\* whitespace, a host:port, a host:port within whitespace.
ScanValues ==
    { None, Some(<<>>), Some(<<" ">>), Some(<<"h", ":", "1">>),
      Some(<<" ", "h", ":", "5", " ">>) }

\* The proxy strings the runs checked resolve (the results of line 83) and the
\* result of line 85 for each.
ProxyInputs ==
    {None} \cup
    { Some(Strip(Val(v))) :
        v \in { w \in ScanValues \cup UNION { { e[k] : k \in KeySet } : e \in ProxyEnvs }
                         \cup { Some(ProxyText(t)) : t \in ProxyParts } :
                    Truthy(w) /\ Strip(Val(w)) # <<>> } }

ProxyConfigs == [p \in ProxyInputs |-> _playwright_proxy_config(p)]

Init ==
    /\ \E c \in [CredentialKeys -> CredentialValues], p \in ProxyEnvs :
           environ = [k \in EnvKeys |-> IF k \in CredentialKeys THEN c[k] ELSE p[k]]
    /\ pc = "L70"
    /\ remember_web_cookie = None
    /\ pterodactyl_email = None
    /\ pterodactyl_password = None
    /\ proxy_cfg = NoProxy
    /\ page_url = <<>>
    /\ calls = <<>>
    /\ log = <<Line("start", <<>>)>>
    /\ exc = <<>>
    /\ pending = "none"
    /\ ret = "none"
    /\ exit_code = <<>>

\* Variant of CheckCredentials: one of email and password is enough ("or" for
\* the "and" of line 78).
CheckCredentialsEither ==
    /\ pc = "L70"
    /\ remember_web_cookie' = environ["REMEMBER_WEB_COOKIE"]
    /\ pterodactyl_email' = environ["PTERODACTYL_EMAIL"]
    /\ pterodactyl_password' = environ["PTERODACTYL_PASSWORD"]
    /\ IF ~(Truthy(remember_web_cookie')
            \/ (Truthy(pterodactyl_email') \/ Truthy(pterodactyl_password')))
       THEN /\ log' = Append(log, Line("missing_credentials", <<>>))
            /\ ret' = "False"
            /\ pc' = "L244"
       ELSE /\ pc' = "L83"
            /\ UNCHANGED <<log, ret>>
    /\ UNCHANGED <<environ, proxy_cfg, page_url, calls, exc, pending, exit_code>>

\* lines 70-80
CheckCredentials ==
    /\ pc = "L70"
    /\ remember_web_cookie' = environ["REMEMBER_WEB_COOKIE"]
    /\ pterodactyl_email' = environ["PTERODACTYL_EMAIL"]
    /\ pterodactyl_password' = environ["PTERODACTYL_PASSWORD"]
    /\ IF ~(Truthy(remember_web_cookie')
            \/ (Truthy(pterodactyl_email') /\ Truthy(pterodactyl_password')))
       THEN /\ log' = Append(log, Line("missing_credentials", <<>>))
            /\ ret' = "False"
            /\ pc' = "L244"
       ELSE /\ pc' = "L83"
            /\ UNCHANGED <<log, ret>>
    /\ UNCHANGED <<environ, proxy_cfg, page_url, calls, exc, pending, exit_code>>

\* Variant of ResolveProxy: a proxy string that cannot be resolved is dropped
\* and the run goes on without a proxy (no "return False" at line 88).
ResolveProxyLenient ==
    /\ pc = "L83"
    /\ \E cfg \in {ProxyConfigs[_get_proxy_server_from_env(environ)]} :
           IF cfg.kind = "ValueError"
           THEN /\ log' = Append(log, Line("proxy_invalid:" \o cfg.error, cfg.detail))
                /\ proxy_cfg' = NoProxy
                /\ pc' = "L101"
                /\ UNCHANGED ret
           ELSE /\ proxy_cfg' = cfg
                /\ pc' = "L101"
                /\ UNCHANGED <<log, ret>>
    /\ UNCHANGED <<environ, remember_web_cookie, pterodactyl_email,
                   pterodactyl_password, page_url, calls, exc, pending, exit_code>>

\* lines 83-88
ResolveProxy ==
    /\ pc = "L83"
    /\ \E cfg \in {ProxyConfigs[_get_proxy_server_from_env(environ)]} :
           IF cfg.kind = "ValueError"
           THEN /\ log' = Append(log, Line("proxy_invalid:" \o cfg.error, cfg.detail))
                /\ ret' = "False"
                /\ pc' = "L244"
                /\ UNCHANGED proxy_cfg
           ELSE /\ proxy_cfg' = cfg
                /\ pc' = "L101"
                /\ UNCHANGED <<log, ret>>
    /\ UNCHANGED <<environ, remember_web_cookie, pterodactyl_email,
                   pterodactyl_password, page_url, calls, exc, pending, exit_code>>

\* lines 103-107: what is printed about the proxy before the launch
ProxyLines(cfg) ==
    IF cfg.kind # "cfg" THEN <<>>
    ELSE <<Line("proxy_enabled", cfg.server)>>
         \o (IF Truthy(cfg.username) THEN <<Line("proxy_auth", <<>>)>> ELSE <<>>)

\* lines 101-110: an error starting the engine or the browser leaves
\* add_server_time; the try of line 114 is not entered yet.
Launch ==
    /\ pc = "L101"
    /\ log' = log \o ProxyLines(proxy_cfg)
    /\ \E out \in Ends :
        /\ calls' = Append(calls, Rec("launch", proxy_cfg.server, out))
        /\ IF out = "ok"
           THEN pc' = "L111" /\ UNCHANGED ret
           ELSE pc' = "L244" /\ ret' = "raise"
    /\ UNCHANGED <<environ, remember_web_cookie, pterodactyl_email,
                   pterodactyl_password, proxy_cfg, page_url, exc, pending, exit_code>>

\* lines 111-112: also before the try of line 114
NewPage ==
    /\ pc = "L111"
    /\ \E out \in Ends :
        /\ calls' = Append(calls, Rec("new_page", <<>>, out))
        /\ IF out = "ok"
           THEN pc' = "L118" /\ page_url' = AboutBlank /\ UNCHANGED ret
           ELSE pc' = "L244" /\ ret' = "raise" /\ UNCHANGED page_url
    /\ UNCHANGED <<environ, remember_web_cookie, pterodactyl_email,
                   pterodactyl_password, proxy_cfg, log, exc, pending, exit_code>>

\* What the steps inside the try of line 114 leave unchanged unless they say
\* otherwise.
config == <<environ, pterodactyl_email, pterodactyl_password, proxy_cfg>>

\* "return v" inside the try: the finally of line 238 runs first.
Return(v) == pending' = v /\ pc' = "L239"

\* An exception that reaches the handler of line 234.
Throw(op, out) == exc' = <<op, out>> /\ pc' = "L235"

\* Variant of safe_goto: the timeout is printed and the run goes on as if the
\* page had loaded (True returned from the handler of line 96).
safe_goto_forgiving(here, url, label, okpc) ==
    /\ pc = here
    /\ \E out \in Outcomes :
        /\ calls' = Append(calls, Rec("goto", url, out))
        /\ CASE out = "ok" ->
                  /\ \E u \in Landings(url) : page_url' = u
                  /\ pc' = okpc
                  /\ UNCHANGED <<log, exc>>
             [] out = "timeout" ->
                  /\ log' = Append(log, Line("goto_timeout:" \o label, url))
                  /\ pc' = okpc
                  /\ UNCHANGED <<page_url, exc>>
             [] out = "error" ->
                  /\ Throw("goto", out)
                  /\ UNCHANGED <<page_url, log>>
    /\ UNCHANGED <<config, remember_web_cookie, pending, ret, exit_code>>

\* safe_goto, lines 92-97, called from inside the try but outside the
\* self-check: page.goto returns (True), times out (print, then the screenshot
\* of line 98) or raises something else, which leaves safe_goto.
safe_goto(here, url, label, okpc) ==
    /\ pc = here
    /\ \E out \in Outcomes :
        /\ calls' = Append(calls, Rec("goto", url, out))
        /\ CASE out = "ok" ->
                  /\ \E u \in Landings(url) : page_url' = u
                  /\ pc' = okpc
                  /\ UNCHANGED <<log, exc>>
             [] out = "timeout" ->
                  /\ log' = Append(log, Line("goto_timeout:" \o label, url))
                  /\ pc' = here \o "s"
                  /\ UNCHANGED <<page_url, exc>>
             [] out = "error" ->
                  /\ Throw("goto", out)
                  /\ UNCHANGED <<page_url, log>>
    /\ UNCHANGED <<config, remember_web_cookie, pending, ret, exit_code>>

\* safe_goto, lines 98-99: the screenshot named by the label, then return False,
\* on which every caller but the self-check returns False.
safe_goto_screenshot(here, label) ==
    /\ pc = here \o "s"
    /\ \E out \in Ends :
        /\ calls' = Append(calls, Rec("screenshot", <<label, "_goto_timeout.png">>, out))
        /\ IF out = "ok"
           THEN Return("False") /\ UNCHANGED exc
           ELSE Throw("screenshot", out) /\ UNCHANGED pending
    /\ UNCHANGED <<config, remember_web_cookie, page_url, log, ret, exit_code>>

\* A call whose every exception reaches the handler of line 234; pre is
\* printed before the call, post after it returned.
PageCall(here, pre, op, arg, post, okpc) ==
    /\ pc = here
    /\ \E out \in Ends :
        /\ calls' = Append(calls, Rec(op, arg, out))
        /\ IF out = "ok"
           THEN /\ log' = log \o pre \o post
                /\ pc' = okpc
                /\ UNCHANGED exc
           ELSE /\ log' = log \o pre
                /\ Throw(op, out)
    /\ UNCHANGED <<config, remember_web_cookie, page_url, pending, ret, exit_code>>

\* A screenshot followed by "return False" (lines 189-190, 201-202).
FailShot(here, path) ==
    /\ pc = here
    /\ \E out \in Ends :
        /\ calls' = Append(calls, Rec("screenshot", path, out))
        /\ IF out = "ok"
           THEN Return("False") /\ UNCHANGED exc
           ELSE Throw("screenshot", out) /\ UNCHANGED pending
    /\ UNCHANGED <<config, remember_web_cookie, page_url, log, ret, exit_code>>

\* ---- proxy self-check, lines 117-122 ----

\* Variant of SelfCheckGoto: an exception of the navigation of the self-check
\* reaches the handler of line 234 (the try of line 117 left out).
SelfCheckGotoFatal ==
    /\ pc = "L118"
    /\ \E out \in Outcomes :
        /\ calls' = Append(calls, Rec("goto", IpCheckUrl, out))
        /\ CASE out = "ok" ->
                  /\ \E u \in Landings(IpCheckUrl) : page_url' = u
                  /\ pc' = "L119"
                  /\ UNCHANGED <<log, exc>>
             [] out = "timeout" ->
                  /\ log' = Append(log, Line("goto_timeout:proxy_ip_check", IpCheckUrl))
                  /\ pc' = "L118s"
                  /\ UNCHANGED <<page_url, exc>>
             [] out = "error" ->
                  /\ Throw("goto", out)
                  /\ UNCHANGED <<page_url, log>>
    /\ UNCHANGED <<config, remember_web_cookie, pending, ret, exit_code>>

\* line 118 with safe_goto's lines 93-97; an exception other than the timeout
\* leaves safe_goto and is caught at line 121.
SelfCheckGoto ==
    /\ pc = "L118"
    /\ \E out \in Outcomes :
        /\ calls' = Append(calls, Rec("goto", IpCheckUrl, out))
        /\ CASE out = "ok" ->
                  /\ \E u \in Landings(IpCheckUrl) : page_url' = u
                  /\ pc' = "L119"
                  /\ UNCHANGED log
             [] out = "timeout" ->
                  /\ log' = Append(log, Line("goto_timeout:proxy_ip_check", IpCheckUrl))
                  /\ pc' = "L118s"
                  /\ UNCHANGED page_url
             [] out = "error" ->
                  /\ log' = Append(log, Line("selfcheck_skipped", <<"goto", out>>))
                  /\ pc' = "L125"
                  /\ UNCHANGED page_url
    /\ UNCHANGED <<config, remember_web_cookie, exc, pending, ret, exit_code>>

\* lines 98-99 under line 118: safe_goto returns False, or the screenshot's
\* exception is caught at line 121.
SelfCheckShot ==
    /\ pc = "L118s"
    /\ \E out \in Ends :
        /\ calls' = Append(calls,
                           Rec("screenshot", <<"proxy_ip_check", "_goto_timeout.png">>, out))
        /\ log' = IF out = "ok" THEN log
                  ELSE Append(log, Line("selfcheck_skipped", <<"screenshot", out>>))
    /\ pc' = "L125"
    /\ UNCHANGED <<config, remember_web_cookie, page_url, exc, pending, ret, exit_code>>

\* lines 119-122
SelfCheckIp ==
    /\ pc = "L119"
    /\ \E out \in Ends :
        /\ calls' = Append(calls, Rec("inner_text", <<"body">>, out))
        /\ log' = IF out = "ok" THEN Append(log, Line("exit_ip", <<"ip">>))
                  ELSE Append(log, Line("selfcheck_skipped", <<"inner_text", out>>))
    /\ pc' = "L125"
    /\ UNCHANGED <<config, remember_web_cookie, page_url, exc, pending, ret, exit_code>>

\* ---- cookie login, lines 125-152 ----

\* lines 125-126
CookieBranch ==
    /\ pc = "L125"
    /\ IF Truthy(remember_web_cookie)
       THEN log' = Append(log, Line("cookie_detected", <<>>)) /\ pc' = "L129"
       ELSE pc' = "L155" /\ UNCHANGED log
    /\ UNCHANGED <<config, remember_web_cookie, page_url, calls, exc, pending, ret,
                   exit_code>>

\* Variant of HomeGoto: a timeout of the navigation to the site root is printed
\* and the cookie login goes on (no "return False" at line 130).
HomeGotoForgiving == safe_goto_forgiving("L129", HomeUrl, "home", "L132")

\* lines 129-130
HomeGoto == safe_goto("L129", HomeUrl, "home", "L132")
HomeShot == safe_goto_screenshot("L129", "home")

\* lines 132-141: the cookie is injected with the token as its value (its name,
\* from REMEMBER_WEB_COOKIE_NAME or the default of line 73, plays no part in the
\* control flow and is left out).
AddCookies == PageCall("L132", <<>>, "add_cookies", Val(remember_web_cookie), <<>>, "L143")

\* lines 143-144
ServerCookieGoto == safe_goto("L143", server_url, "server_cookie", "L147")
ServerCookieShot == safe_goto_screenshot("L143", "server_cookie")

\* lines 147-152: page.url is read, and the count is asked for only when the URL
\* is not on the login route ("or" short-circuits).
CookieCheck ==
    /\ pc = "L147"
    /\ IF HasLoginRoute(page_url)
       THEN /\ calls' = Append(calls, UrlRead(page_url))
            /\ log' = Append(log, Line("cookie_failed", <<>>))
            /\ pc' = "L149"
            /\ UNCHANGED exc
       ELSE \E out \in Ends :
              IF out = "ok"
              THEN \E n \in {0, 1} :
                     /\ calls' = calls \o <<UrlRead(page_url),
                                             RecV("count", email_selector, out, <<n>>)>>
                     /\ IF n > 0
                        THEN /\ log' = Append(log, Line("cookie_failed", <<>>))
                             /\ pc' = "L149"
                        ELSE /\ log' = Append(log, Line("cookie_ok", <<>>))
                             /\ pc' = "L155"
                     /\ UNCHANGED exc
              ELSE /\ calls' = calls \o <<UrlRead(page_url),
                                           Rec("count", email_selector, out)>>
                   /\ Throw("count", out)
                   /\ UNCHANGED log
    /\ UNCHANGED <<config, remember_web_cookie, page_url, pending, ret, exit_code>>

\* Variant of ClearCookies: the token is kept (line 150 left out).
ClearCookiesKeepToken ==
    /\ pc = "L149"
    /\ \E out \in Ends :
        /\ calls' = Append(calls, Rec("clear_cookies", <<>>, out))
        /\ IF out = "ok"
           THEN pc' = "L155" /\ UNCHANGED exc
           ELSE Throw("clear_cookies", out)
    /\ UNCHANGED <<config, remember_web_cookie, page_url, log, pending, ret, exit_code>>

\* Variant of ClearCookies: after the cookies are cleared the cookie login is
\* tried again with the same token (a loop back to line 125, line 150 left
\* out).
ClearCookiesRetry ==
    /\ pc = "L149"
    /\ \E out \in Ends :
        /\ calls' = Append(calls, Rec("clear_cookies", <<>>, out))
        /\ IF out = "ok"
           THEN pc' = "L125" /\ UNCHANGED exc
           ELSE Throw("clear_cookies", out)
    /\ UNCHANGED <<config, remember_web_cookie, page_url, log, pending, ret, exit_code>>

\* lines 149-150
ClearCookies ==
    /\ pc = "L149"
    /\ \E out \in Ends :
        /\ calls' = Append(calls, Rec("clear_cookies", <<>>, out))
        /\ IF out = "ok"
           THEN /\ remember_web_cookie' = None
                /\ pc' = "L155"
                /\ UNCHANGED exc
           ELSE /\ Throw("clear_cookies", out)
                /\ UNCHANGED remember_web_cookie
    /\ UNCHANGED <<config, page_url, log, pending, ret, exit_code>>

\* ---- account login, lines 155-192 ----

\* Variant of CredentialBranch: the account login runs whatever the cookie
\* login did (the test of line 155 left out).
CredentialBranchAlways ==
    /\ pc = "L155"
    /\ IF ~(Truthy(pterodactyl_email) /\ Truthy(pterodactyl_password))
       THEN /\ log' = Append(log, Line("cookie_invalid_no_credentials", <<>>))
            /\ Return("False")
       ELSE /\ log' = Append(log, Line("visit_login", login_url))
            /\ pc' = "L161"
            /\ UNCHANGED pending
    /\ UNCHANGED <<config, remember_web_cookie, page_url, calls, exc, ret, exit_code>>

\* Variant of CredentialBranch: the account login starts whether or not both
\* email and password are set (the test of line 156 left out).
CredentialBranchNoPairCheck ==
    /\ pc = "L155"
    /\ IF Truthy(remember_web_cookie)
       THEN pc' = "L195" /\ UNCHANGED log
       ELSE /\ log' = Append(log, Line("visit_login", login_url))
            /\ pc' = "L161"
    /\ UNCHANGED <<config, remember_web_cookie, page_url, calls, exc, pending, ret,
                   exit_code>>

\* lines 155-160
CredentialBranch ==
    /\ pc = "L155"
    /\ IF Truthy(remember_web_cookie)
       THEN pc' = "L195" /\ UNCHANGED <<log, pending>>
       ELSE IF ~(Truthy(pterodactyl_email) /\ Truthy(pterodactyl_password))
       THEN /\ log' = Append(log, Line("cookie_invalid_no_credentials", <<>>))
            /\ Return("False")
       ELSE /\ log' = Append(log, Line("visit_login", login_url))
            /\ pc' = "L161"
            /\ UNCHANGED pending
    /\ UNCHANGED <<config, remember_web_cookie, page_url, calls, exc, ret, exit_code>>

\* lines 161-162
LoginGoto == safe_goto("L161", login_url, "login", "L168")
LoginShot == safe_goto_screenshot("L161", "login")

\* lines 168-170
WaitEmail    == PageCall("L168", <<>>, "wait_visible", email_selector, <<>>, "L169")
WaitPassword == PageCall("L169", <<>>, "wait_visible", password_selector, <<>>, "L170")
WaitSubmit   == PageCall("L170", <<>>, "wait_visible", login_button_selector, <<>>, "L172")

\* lines 172-173
FillEmail    == PageCall("L172", <<>>, "fill", email_selector, <<>>, "L173")
FillPassword == PageCall("L173", <<>>, "fill", password_selector, <<>>, "L175")

\* lines 175-176
ClickLogin ==
    PageCall("L175", <<Line("click_login", <<>>)>>, "click", login_button_selector, <<>>, "L180")

\* Variant of WaitDetached: the timeout always falls through to line 192 (the
\* test of line 183 left out).
WaitDetachedLenient ==
    /\ pc = "L180"
    /\ \E out \in Outcomes :
        /\ CASE out = "ok" ->
                  /\ \E u \in {login_url, server_url, OtherUrl} : page_url' = u
                  /\ calls' = Append(calls, Rec("wait_detached", email_selector, out))
                  /\ log' = Append(log, Line("login_ok", <<>>))
                  /\ pc' = "L195"
                  /\ UNCHANGED exc
             [] out = "timeout" ->
                  /\ \E u \in {login_url, server_url, OtherUrl} : page_url' = u
                  /\ calls' = Append(calls,
                                     RecV("wait_detached", email_selector, out, page_url'))
                  /\ log' = Append(log, Line("login_ok", <<>>))
                  /\ pc' = "L195"
                  /\ UNCHANGED exc
             [] out = "error" ->
                  /\ calls' = Append(calls, Rec("wait_detached", email_selector, out))
                  /\ Throw("wait_detached", out)
                  /\ UNCHANGED <<page_url, log>>
    /\ UNCHANGED <<config, remember_web_cookie, pending, ret, exit_code>>

\* lines 179-183 and 192: the wait for the username field to leave the DOM.
\* The submission may have moved the page, so the URL read afterwards is the
\* collaborator's choice.  On the timeout the run is on line 183: still on the
\* login route it goes on to read the banner, else it falls through to 192.
\* The call's record keeps the URL that line 183 read.
WaitDetached ==
    /\ pc = "L180"
    /\ \E out \in Outcomes :
        /\ CASE out = "ok" ->
                  /\ \E u \in {login_url, server_url, OtherUrl} : page_url' = u
                  /\ calls' = Append(calls, Rec("wait_detached", email_selector, out))
                  /\ log' = Append(log, Line("login_ok", <<>>))
                  /\ pc' = "L195"
                  /\ UNCHANGED exc
             [] out = "timeout" ->
                  /\ \E u \in {login_url, server_url, OtherUrl} : page_url' = u
                  /\ calls' = Append(calls,
                                     RecV("wait_detached", email_selector, out, page_url'))
                  /\ IF HasLoginRoute(page_url')
                     THEN pc' = "L185" /\ UNCHANGED log
                     ELSE /\ log' = Append(log, Line("login_ok", <<>>))
                          /\ pc' = "L195"
                  /\ UNCHANGED exc
             [] out = "error" ->
                  /\ calls' = Append(calls, Rec("wait_detached", email_selector, out))
                  /\ Throw("wait_detached", out)
                  /\ UNCHANGED <<page_url, log>>
    /\ UNCHANGED <<config, remember_web_cookie, pending, ret, exit_code>>

UnknownError == <<"unknown error">>

\* lines 184-186, and line 188 when there is no banner
DangerCount ==
    /\ pc = "L185"
    /\ \E out \in Ends :
        IF out = "ok"
        THEN \E n \in {0, 1} :
               /\ calls' = Append(calls, RecV("count", danger, out, <<n>>))
               /\ IF n > 0
                  THEN pc' = "L187" /\ UNCHANGED log
                  ELSE /\ log' = Append(log, Line("login_failed", UnknownError))
                       /\ pc' = "L189"
               /\ UNCHANGED exc
        ELSE /\ calls' = Append(calls, Rec("count", danger, out))
             /\ Throw("count", out)
             /\ UNCHANGED log
    /\ UNCHANGED <<config, remember_web_cookie, page_url, pending, ret, exit_code>>

MaxBannerLen == 2
BannerChars == {" ", "b"}
BannerTexts ==
    UNION {[1..n -> BannerChars] : n \in 0..MaxBannerLen}

\* lines 187-188: err is the stripped text of the first banner
DangerText ==
    /\ pc = "L187"
    /\ \E out \in Ends :
        IF out = "ok"
        THEN \E t \in BannerTexts :
               /\ calls' = Append(calls, RecV("inner_text", danger, out, t))
               /\ log' = Append(log, Line("login_failed", Strip(t)))
               /\ pc' = "L189"
               /\ UNCHANGED exc
        ELSE /\ calls' = Append(calls, Rec("inner_text", danger, out))
             /\ Throw("inner_text", out)
             /\ UNCHANGED log
    /\ UNCHANGED <<config, remember_web_cookie, page_url, pending, ret, exit_code>>

\* lines 189-190
LoginFailPath == <<"login_fail_error.png">>
LoginFailShot == FailShot("L189", LoginFailPath)

\* ---- reaching the server page, lines 195-202 ----

\* lines 195-196
EnsureServerPage ==
    /\ pc = "L195"
    /\ calls' = Append(calls, UrlRead(page_url))
    /\ IF page_url # server_url
       THEN log' = Append(log, Line("navigate_server", server_url)) /\ pc' = "L197"
       ELSE pc' = "L205" /\ UNCHANGED log
    /\ UNCHANGED <<config, remember_web_cookie, page_url, exc, pending, ret, exit_code>>

\* lines 197-198
FinalGoto == safe_goto("L197", server_url, "server_final", "L199")
FinalShot == safe_goto_screenshot("L197", "server_final")

\* Variant of FinalCheck: the URL the final navigation landed on is not looked
\* at (the test of line 199 left out).
FinalCheckSkipped ==
    /\ pc = "L199"
    /\ calls' = Append(calls, UrlRead(page_url))
    /\ pc' = "L205"
    /\ UNCHANGED <<config, remember_web_cookie, page_url, log, exc, pending, ret,
                   exit_code>>

\* lines 199-200
FinalCheck ==
    /\ pc = "L199"
    /\ calls' = Append(calls, UrlRead(page_url))
    /\ IF HasLoginRoute(page_url)
       THEN log' = Append(log, Line("nav_back_to_login", <<>>)) /\ pc' = "L201"
       ELSE pc' = "L205" /\ UNCHANGED log
    /\ UNCHANGED <<config, remember_web_cookie, page_url, exc, pending, ret, exit_code>>

\* lines 201-202
NavFailShot == FailShot("L201", <<"server_page_nav_fail.png">>)

\* ---- the click, lines 205-232 ----

\* A call inside the try of line 208: the timeout goes to the handler of line
\* 223, any other exception to the handler of line 234.
ButtonCall(here, pre, op, okpc) ==
    /\ pc = here
    /\ \E out \in Outcomes :
        /\ calls' = Append(calls, Rec(op, add_button, out))
        /\ log' = log \o pre
        /\ CASE out = "ok"      -> pc' = okpc /\ UNCHANGED exc
             [] out = "timeout" -> pc' = "L224" /\ UNCHANGED exc
             [] out = "error"   -> Throw(op, out)
    /\ UNCHANGED <<config, remember_web_cookie, page_url, pending, ret, exit_code>>

\* Variant of WaitButton: a button that did not show within the bound is
\* scrolled to and probed all the same (the timeout of line 209 not raised).
WaitButtonLenient ==
    /\ pc = "L205"
    /\ \E out \in Outcomes :
        /\ calls' = Append(calls, Rec("wait_for", add_button, out))
        /\ log' = Append(log, Line("wait_button", <<>>))
        /\ IF out = "error"
           THEN Throw("wait_for", out)
           ELSE pc' = "L210" /\ UNCHANGED exc
    /\ UNCHANGED <<config, remember_web_cookie, page_url, pending, ret, exit_code>>

\* lines 205-209
WaitButton == ButtonCall("L205", <<Line("wait_button", <<>>)>>, "wait_for", "L210")

\* line 210
ScrollIntoView == ButtonCall("L210", <<>>, "scroll_into_view", "L213")

\* Variant of TrialClick: the probe's timeout does not stop the run.
TrialClickUnchecked ==
    /\ pc = "L213"
    /\ \E out \in Outcomes :
        /\ calls' = Append(calls, Rec("click_trial", add_button, out))
        /\ IF out = "error"
           THEN Throw("click_trial", out)
           ELSE pc' = "L216" /\ UNCHANGED exc
    /\ UNCHANGED <<config, remember_web_cookie, page_url, log, pending, ret, exit_code>>

\* line 213: the probe, click(trial=True)
TrialClick == ButtonCall("L213", <<>>, "click_trial", "L216")

\* Variant of RealClick: a click that timed out is tried again.
RealClickRetry ==
    /\ pc = "L216"
    /\ \E out \in Outcomes :
        /\ calls' = Append(calls, Rec("click", add_button, out))
        /\ CASE out = "ok" ->
                  /\ log' = log \o <<Line("clicked", <<>>), Line("task_done", <<>>)>>
                  /\ Return("True")
                  /\ UNCHANGED exc
             [] out = "timeout" ->
                  /\ pc' = "L216"
                  /\ UNCHANGED <<log, exc, pending>>
             [] out = "error" ->
                  /\ Throw("click", out)
                  /\ UNCHANGED <<log, pending>>
    /\ UNCHANGED <<config, remember_web_cookie, page_url, ret, exit_code>>

\* lines 216-221: the real click, then the prints, the sleep and "return True"
RealClick ==
    /\ pc = "L216"
    /\ \E out \in Outcomes :
        /\ calls' = Append(calls, Rec("click", add_button, out))
        /\ CASE out = "ok" ->
                  /\ log' = log \o <<Line("clicked", <<>>), Line("task_done", <<>>)>>
                  /\ Return("True")
                  /\ UNCHANGED exc
             [] out = "timeout" ->
                  /\ pc' = "L224"
                  /\ UNCHANGED <<log, exc, pending>>
             [] out = "error" ->
                  /\ Throw("click", out)
                  /\ UNCHANGED <<log, pending>>
    /\ UNCHANGED <<config, remember_web_cookie, page_url, ret, exit_code>>

\* lines 223-225
NotClickableShot ==
    PageCall("L224", <<Line("button_not_found_or_not_clickable", <<>>)>>,
             "screenshot", <<"add_time_button_not_clickable.png">>, <<>>, "L228")

\* lines 227-232: the markup diagnostic; its exceptions are swallowed
DebugContent ==
    /\ pc = "L228"
    /\ \E out \in Ends :
        IF out = "ok"
        THEN \E found \in BOOLEAN :
               /\ calls' = Append(calls, RecV("content", <<>>, out, <<found>>))
               /\ log' = Append(log, Line("debug_contains", <<found>>))
        ELSE /\ calls' = Append(calls, Rec("content", <<>>, out))
             /\ UNCHANGED log
    /\ Return("False")
    /\ UNCHANGED <<config, remember_web_cookie, page_url, exc, ret, exit_code>>

\* ---- leaving the try, lines 234-239 ----

\* lines 234-237: an exception of the screenshot leaves the handler
GeneralError ==
    /\ pc = "L235"
    /\ log' = Append(log, Line("unknown_error", exc))
    /\ \E out \in Ends :
        /\ calls' = Append(calls, Rec("screenshot", <<"general_error.png">>, out))
        /\ Return(IF out = "ok" THEN "False" ELSE "raise")
    /\ UNCHANGED <<config, remember_web_cookie, page_url, exc, ret, exit_code>>

\* lines 238-239: browser.close(), then the pending return or exception; an
\* exception of close() replaces either.
Close ==
    /\ pc = "L239"
    /\ \E out \in Ends :
        /\ calls' = Append(calls, Rec("close", <<>>, out))
        /\ ret' = IF out = "ok" THEN pending ELSE "raise"
    /\ pc' = "L244"
    /\ UNCHANGED <<config, remember_web_cookie, page_url, log, exc, pending, exit_code>>

\* Variant of Exit: status 0 whenever add_server_time returned.
ExitZero ==
    /\ pc = "L244"
    /\ log' = IF ret = "raise" THEN log
              ELSE Append(log, Line(IF ret = "True" THEN "task_ok" ELSE "task_failed", <<>>))
    /\ exit_code' = IF ret = "raise" THEN <<1>> ELSE <<0>>
    /\ pc' = "done"
    /\ UNCHANGED <<environ, remember_web_cookie, pterodactyl_email,
                   pterodactyl_password, proxy_cfg, page_url, calls, exc, pending, ret>>

\* lines 243-245; an exception that left add_server_time ends the interpreter
\* with status 1 before line 244 prints.
Exit ==
    /\ pc = "L244"
    /\ log' = IF ret = "raise" THEN log
              ELSE Append(log, Line(IF ret = "True" THEN "task_ok" ELSE "task_failed", <<>>))
    /\ exit_code' = IF ret = "True" THEN <<0>> ELSE <<1>>
    /\ pc' = "done"
    /\ UNCHANGED <<environ, remember_web_cookie, pterodactyl_email,
                   pterodactyl_password, proxy_cfg, page_url, calls, exc, pending, ret>>

Next ==
    \/ CheckCredentials
    \/ ResolveProxy
    \/ Launch
    \/ NewPage
    \/ SelfCheckGoto
    \/ SelfCheckShot
    \/ SelfCheckIp
    \/ CookieBranch
    \/ HomeGoto
    \/ HomeShot
    \/ AddCookies
    \/ ServerCookieGoto
    \/ ServerCookieShot
    \/ CookieCheck
    \/ ClearCookies
    \/ CredentialBranch
    \/ LoginGoto
    \/ LoginShot
    \/ WaitEmail
    \/ WaitPassword
    \/ WaitSubmit
    \/ FillEmail
    \/ FillPassword
    \/ ClickLogin
    \/ WaitDetached
    \/ DangerCount
    \/ DangerText
    \/ LoginFailShot
    \/ EnsureServerPage
    \/ FinalGoto
    \/ FinalShot
    \/ FinalCheck
    \/ NavFailShot
    \/ WaitButton
    \/ ScrollIntoView
    \/ TrialClick
    \/ RealClick
    \/ NotClickableShot
    \/ DebugContent
    \/ GeneralError
    \/ Close
    \/ Exit

Spec == Init /\ [][Next]_vars

\* The run is one sequential thread and the claim about its termination takes
\* every call into the collaborator to return, time out or raise: a step that
\* can be taken is taken.
FairSpec == Spec /\ WF_vars(Next)

ParseInit ==
    /\ \E t \in ProxyParts :
           environ = ProxyEnv([k \in KeySet |->
                         IF k = "ALL_PROXY" THEN Some(ProxyText(t)) ELSE None])
    /\ pc = "L70"
    /\ remember_web_cookie = None
    /\ pterodactyl_email = None
    /\ pterodactyl_password = None
    /\ proxy_cfg = NoProxy
    /\ page_url = <<>>
    /\ calls = <<>>
    /\ log = <<Line("start", <<>>)>>
    /\ exc = <<>>
    /\ pending = "none"
    /\ ret = "none"
    /\ exit_code = <<>>

\* The run up to the launch of line 110: everything the proxy settings decide.
ProxyNext ==
    \/ CheckCredentials
    \/ ResolveProxy
    \/ Launch
    \/ Exit

ParseSpec == ParseInit /\ [][ProxyNext]_vars

ScanInit ==
    /\ \E p \in [KeySet -> ScanValues] : environ = ProxyEnv(p)
    /\ pc = "L70"
    /\ remember_web_cookie = None
    /\ pterodactyl_email = None
    /\ pterodactyl_password = None
    /\ proxy_cfg = NoProxy
    /\ page_url = <<>>
    /\ calls = <<>>
    /\ log = <<Line("start", <<>>)>>
    /\ exc = <<>>
    /\ pending = "none"
    /\ ret = "none"
    /\ exit_code = <<>>

ScanSpec == ScanInit /\ [][ProxyNext]_vars

(***************************************************************************)
(* Properties                                                               *)
(***************************************************************************)
Idx == 1..Len(calls)

Called(op, arg) == \E i \in Idx : calls[i].op = op /\ calls[i].arg = arg
NCalls(op, arg) == Cardinality({i \in Idx : calls[i].op = op /\ calls[i].arg = arg})
CalledOp(op) == \E i \in Idx : calls[i].op = op

Logged(msg) == \E i \in 1..Len(log) : log[i].msg = msg
NLogged(msg) == Cardinality({i \in 1..Len(log) : log[i].msg = msg})

\* The run reported success somewhere: the return value, the value the finally
\* holds, the exit status or the printed lines.
ReportsSuccess ==
    \/ ret = "True"
    \/ pending = "True"
    \/ exit_code = <<0>>
    \/ Logged("clicked")
    \/ Logged("task_ok")

\* The handler of line 223 was entered: the one place where the run reports the
\* button as not found or not clickable.
NotClickableReported ==
    pc = "L224" \/ Logged("button_not_found_or_not_clickable")

\* C1: the real click on the button is issued only after the trial click (the
\* probe) on it returned in the same run.  When the probe raises, no real
\* click is ever issued and the run never reports success; when it raises the
\* timeout (the probe's report of a button that cannot be clicked) the run is
\* in, or has been through, the handler that reports "not clickable".
C1_ProbeBeforeClick ==
    /\ \A i \in Idx :
          (calls[i].op = "click" /\ calls[i].arg = add_button)
          => \E j \in 1..(i - 1) : calls[j].op = "click_trial" /\ calls[j].out = "ok"
    /\ \A j \in Idx :
          (calls[j].op = "click_trial" /\ calls[j].out # "ok")
          => /\ ~Called("click", add_button)
             /\ ~ReportsSuccess
             /\ (calls[j].out = "timeout" => NotClickableReported)
             /\ (pc = "done" => ret \in {"False", "raise"} /\ exit_code = <<1>>)

C1_Witness ==
    /\ pc = "done"
    /\ \E j \in Idx : calls[j].op = "click_trial" /\ calls[j].out = "timeout"
    /\ Logged("button_not_found_or_not_clickable")
    /\ ret = "False"

TokenConfigured == Truthy(environ["REMEMBER_WEB_COOKIE"])
PairConfigured ==
    Truthy(environ["PTERODACTYL_EMAIL"]) /\ Truthy(environ["PTERODACTYL_PASSWORD"])

\* Line 148 ran: after the cookie was injected the server page showed the login
\* page.
CookieRejected == Logged("cookie_failed")
\* Line 152 ran.
CookieAccepted == Logged("cookie_ok")

\* How often the cookie login (line 126) and the account login (the body of the
\* "if" of line 155) were entered.
CookieAttempts == NLogged("cookie_detected")
CredentialAttempts == NLogged("visit_login") + NLogged("cookie_invalid_no_credentials")

ClearCookiesOk ==
    \E i \in Idx : calls[i].op = "clear_cookies" /\ calls[i].out = "ok"

\* C2 as stated: once the login page was reported after the cookie injection,
\* the finished run has cleared the cookies, discarded the token, entered the
\* account login exactly once and the cookie login exactly once.
C2_AsStated ==
    (pc = "done" /\ TokenConfigured /\ CookieRejected)
    => /\ ClearCookiesOk
       /\ remember_web_cookie = None
       /\ CredentialAttempts = 1
       /\ CookieAttempts = 1
       /\ NCalls("add_cookies", Val(environ["REMEMBER_WEB_COOKIE"])) = 1

\* C2: once the login page was reported after the cookie injection, the cookie
\* login is never entered again (one entry, one injection), clear_cookies is
\* called exactly once, and the account login is entered at most once.  When
\* clear_cookies returned, the token is discarded and the finished run has
\* entered the account login exactly once; when clear_cookies raised, the
\* account login is never entered and the run ends in failure.
C2_RejectedTokenFallsBackOnce ==
    (TokenConfigured /\ CookieRejected)
    => /\ CookieAttempts = 1
       /\ NCalls("add_cookies", Val(environ["REMEMBER_WEB_COOKIE"])) = 1
       /\ NCalls("goto", HomeUrl) = 1
       /\ CredentialAttempts <= 1
       /\ pc # "L149" => NCalls("clear_cookies", <<>>) = 1
       /\ ClearCookiesOk => remember_web_cookie = None
       /\ (ClearCookiesOk /\ pc \notin {"L149", "L155"}) => CredentialAttempts = 1
       /\ (CalledOp("clear_cookies") /\ ~ClearCookiesOk)
          => /\ CredentialAttempts = 0
             /\ ~ReportsSuccess
             /\ (pc = "done" => exit_code = <<1>>)

C2_Witness ==
    /\ pc = "done"
    /\ TokenConfigured
    /\ CookieRejected
    /\ ClearCookiesOk
    /\ CredentialAttempts = 1
    /\ Called("click", login_button_selector)

\* The lines of the cookie login and of the account login.
CookiePcs == {"L129", "L129s", "L132", "L143", "L143s", "L147", "L149"}
CredentialPcs ==
    {"L161", "L161s", "L168", "L169", "L170", "L172", "L173", "L175", "L180",
     "L185", "L187", "L189"}

\* C3: once the token is accepted (line 152), the run is past the cookie login
\* with the token kept, goes on to line 195 without entering the account login:
\* the login page is never navigated to and the login form is never waited
\* for, filled or submitted, whether or not an email and password are set.
C3_AcceptedTokenSkipsLogin ==
    (TokenConfigured /\ CookieAccepted)
    => /\ Truthy(remember_web_cookie)
       /\ pc \notin CookiePcs \cup CredentialPcs
       /\ CredentialAttempts = 0
       /\ ~Called("goto", login_url)
       /\ ~CalledOp("fill")
       /\ ~CalledOp("wait_visible")
       /\ ~Called("click", login_button_selector)
       /\ ~CalledOp("clear_cookies")

C3_Witness ==
    /\ pc = "done"
    /\ TokenConfigured
    /\ PairConfigured
    /\ CookieAccepted
    /\ exit_code = <<0>>

\* C4: with neither a token nor a complete email and password pair, the run
\* makes no call into the collaborator at all (no launch, no navigation, no
\* self-check), prints the missing-credentials error and ends with
\* add_server_time returning False and exit status 1.
C4_NoCredentialsNoBrowser ==
    (~TokenConfigured /\ ~PairConfigured)
    => /\ calls = <<>>
       /\ pc \in {"L70", "L244", "done"}
       /\ pc # "L70" => (ret = "False" /\ Logged("missing_credentials"))
       /\ pc = "done" => exit_code = <<1>>
       /\ ~ReportsSuccess

C4_Witness ==
    /\ pc = "done"
    /\ ~TokenConfigured
    /\ Truthy(environ["PTERODACTYL_EMAIL"])
    /\ ~Truthy(environ["PTERODACTYL_PASSWORD"])
    /\ exit_code = <<1>>

LaunchOk == \E i \in Idx : calls[i].op = "launch" /\ calls[i].out = "ok"
PageCreated == \E i \in Idx : calls[i].op = "new_page" /\ calls[i].out = "ok"
CloseOk == \E i \in Idx : calls[i].op = "close" /\ calls[i].out = "ok"

\* C5: in every finished run that launched the browser, whatever stage
\* failed, browser.close() was called exactly once.
C5_ClosedExactlyOnce ==
    (pc = "done" /\ LaunchOk) => NCalls("close", <<>>) = 1

\* What the code does give: close() is never called twice, and every finished
\* run that entered the try of line 114 (the page was created) called it once.
C5_ClosedOnceAfterPageCreated ==
    /\ NCalls("close", <<>>) <= 1
    /\ (pc = "done" /\ PageCreated) => NCalls("close", <<>>) = 1

\* C6: every exception that reaches the handler of line 234 (raised by a call
\* of the cookie login, the account login, the final navigation or the click)
\* ends in a screenshot and add_server_time returning False; the finished run
\* has not left add_server_time with an exception.
C6_NoErrorPropagates ==
    (pc = "done" /\ Logged("unknown_error"))
    => /\ ret = "False"
       /\ \E i \in Idx : /\ calls[i].op = "screenshot"
                         /\ calls[i].arg = <<"general_error.png">>
                         /\ calls[i].out = "ok"

RealClickOk ==
    \E i \in Idx : calls[i].op = "click" /\ calls[i].arg = add_button /\ calls[i].out = "ok"

\* Line 152 or line 192 ran: one of the two logins ended in success.
Authenticated == Logged("cookie_ok") \/ Logged("login_ok")

AuthGotoTimeout ==
    \E i \in Idx : calls[i].op = "goto" /\ calls[i].arg # IpCheckUrl /\ calls[i].out = "timeout"

\* A failed login, a failed navigation or a button not found or not clickable.
FailureReported ==
    \/ Logged("missing_credentials")
    \/ \E i \in 1..Len(log) : log[i].msg \in {"proxy_invalid:bad_format", "proxy_invalid:bad_port"}
    \/ Logged("cookie_invalid_no_credentials")
    \/ Logged("login_failed")
    \/ Logged("nav_back_to_login")
    \/ Logged("button_not_found_or_not_clickable")
    \/ Logged("unknown_error")
    \/ AuthGotoTimeout

C8_NoRetry ==
    /\ CookieAttempts <= 1
    /\ Cardinality({i \in Idx : calls[i].op = "add_cookies"}) <= 1
    /\ CredentialAttempts <= 1
    /\ NCalls("goto", login_url) <= 1
    /\ NCalls("click", login_button_selector) <= 1
    /\ CookieAttempts + CredentialAttempts <= 2
    /\ NCalls("click_trial", add_button) <= 1
    /\ NCalls("click", add_button) <= 1

C8_Witness ==
    /\ pc = "done"
    /\ CookieAttempts = 1
    /\ CredentialAttempts = 1
    /\ NCalls("click", login_button_selector) = 1
    /\ NCalls("click", add_button) = 1
    /\ exit_code = <<0>>

\* The wait of line 180 and what it found.
Detached == \E i \in Idx : calls[i].op = "wait_detached" /\ calls[i].out = "ok"
StillOnLogin ==
    \E i \in Idx : /\ calls[i].op = "wait_detached"
                   /\ calls[i].out = "timeout"
                   /\ HasLoginRoute(calls[i].val)
LeftLogin ==
    \E i \in Idx : /\ calls[i].op = "wait_detached"
                   /\ calls[i].out = "timeout"
                   /\ ~HasLoginRoute(calls[i].val)

\* The text the collaborator returned for the first banner, and the reason
\* line 188 printed.
BannerText(t) ==
    \E i \in Idx : /\ calls[i].op = "inner_text"
                   /\ calls[i].arg = danger
                   /\ calls[i].out = "ok"
                   /\ calls[i].val = t
NoBanner ==
    \E i \in Idx : /\ calls[i].op = "count"
                   /\ calls[i].arg = danger
                   /\ calls[i].out = "ok"
                   /\ calls[i].val = <<0>>
ReportedReason(r) ==
    \E k \in 1..Len(log) : log[k].msg = "login_failed" /\ log[k].arg = r

\* C9 as stated: after the submission, a username field that disappeared, or a
\* timeout off the login route, is a successful login; a timeout on the login
\* route is a failed one, whose screenshot is captured and whose reported
\* reason is the text the collaborator returned for the first banner.
C9_AsStated ==
    /\ (Detached \/ LeftLogin) => (Logged("login_ok") /\ ~Logged("login_failed"))
    /\ StillOnLogin
       => /\ ~Logged("login_ok")
          /\ ~ReportsSuccess
          /\ \A t \in BannerTexts : BannerText(t) => ReportedReason(t)
          /\ pc = "done" => (Called("screenshot", LoginFailPath) /\ exit_code = <<1>>)

\* C9: after the submission, a username field that disappeared, or a timeout
\* off the login route, is a successful login (line 192).  A timeout on the
\* login route never is: the run never reaches line 195 and ends with status
\* 1.  The reason printed is the first banner's text with leading and trailing
\* whitespace removed, or the fixed "unknown error" text when there is no
\* banner; once it is printed the login-failure screenshot is requested.  No
\* reason is printed (and that screenshot is not requested) only when asking
\* for the banner raised, which ends the run through the handler of line 234.
C9_LoginOutcome ==
    /\ (Detached \/ LeftLogin)
       => /\ Logged("login_ok")
          /\ ~Logged("login_failed")
          /\ pc \notin CredentialPcs
    /\ StillOnLogin
       => /\ ~Logged("login_ok")
          /\ ~ReportsSuccess
          /\ pc \in {"L185", "L187", "L189", "L235", "L239", "L244", "done"}
          /\ \A t \in BannerTexts : BannerText(t) => ReportedReason(Strip(t))
          /\ NoBanner => ReportedReason(UnknownError)
          /\ NLogged("login_failed") <= 1
          /\ (Logged("login_failed") /\ pc # "L189") => Called("screenshot", LoginFailPath)
          /\ (~Logged("login_failed") /\ pc \notin {"L185", "L187"})
             => (pc = "L235" \/ Logged("unknown_error"))
          /\ pc = "done" => exit_code = <<1>>

C9_Witness ==
    /\ pc = "done"
    /\ StillOnLogin
    /\ BannerText(<<" ", "b">>)
    /\ ReportedReason(<<"b">>)
    /\ Called("screenshot", LoginFailPath)
    /\ ret = "False"

\* The label safe_goto was called with, for the goto that is call i.
LabelOf(i) ==
    CASE calls[i].arg = IpCheckUrl -> "proxy_ip_check"
      [] calls[i].arg = HomeUrl    -> "home"
      [] calls[i].arg = login_url  -> "login"
      [] calls[i].arg = server_url ->
            IF i > 1 /\ calls[i - 1].op = "add_cookies" THEN "server_cookie"
            ELSE "server_final"

GotoTimedOut(i) == calls[i].op = "goto" /\ calls[i].out = "timeout"

ShotPcs == {"L118s", "L129s", "L143s", "L161s", "L197s"}

\* The call after a goto that timed out is the screenshot named by its label
\* (or the run is about to make it).
ShotFollows(i) ==
    IF i = Len(calls) THEN pc \in ShotPcs
    ELSE /\ calls[i + 1].op = "screenshot"
         /\ calls[i + 1].arg = <<LabelOf(i), "_goto_timeout.png">>

\* Nothing but screenshots and the close follows call i, and the run fails.
TerminalAt(i) ==
    /\ \A j \in (i + 1)..Len(calls) : calls[j].op \in {"screenshot", "close"}
    /\ pc \in ShotPcs \cup {"L235", "L239", "L244", "done"}
    /\ ~ReportsSuccess
    /\ pc = "done" => exit_code = <<1>>

\* safe_goto returned False: its screenshot returned, no exception was caught
\* for it, and (outside the self-check) the run went to the finally with False.
ReturnedFalseAt(i) ==
    (i < Len(calls) /\ calls[i + 1].out = "ok")
    => IF calls[i].arg = IpCheckUrl
       THEN ~Logged("selfcheck_skipped")
       ELSE /\ ~Logged("unknown_error")
            /\ pending = "False"
            /\ (i + 2 <= Len(calls) => calls[i + 2].op = "close")

\* C10 as stated: a navigation timeout always leaves safe_goto by returning
\* False (its screenshot, named by the label, is taken and does not raise), and
\* outside the self-check nothing but screenshots and the close follows.
C10_AsStated ==
    \A i \in Idx :
        GotoTimedOut(i)
        => /\ ShotFollows(i)
           /\ i < Len(calls) => calls[i + 1].out = "ok"
           /\ ReturnedFalseAt(i)
           /\ calls[i].arg # IpCheckUrl => TerminalAt(i)

\* C10: after a navigation timeout the screenshot named by the navigation's
\* label is requested next; when that screenshot returns, safe_goto returns
\* False without raising (when it raises, the exception leaves safe_goto).
\* Outside the self-check the timeout ends the run either way: no further
\* navigation (so none to the same URL), cookie injection, fill, submission,
\* probe or click follows, and the run ends in failure.
C10_TimeoutIsTerminal ==
    \A i \in Idx :
        GotoTimedOut(i)
        => /\ ShotFollows(i)
           /\ Logged("goto_timeout:" \o LabelOf(i))
           /\ ReturnedFalseAt(i)
           /\ calls[i].arg # IpCheckUrl => TerminalAt(i)

C10_Witness ==
    /\ pc = "done"
    /\ \E i \in Idx : /\ GotoTimedOut(i)
                      /\ calls[i].arg = server_url
                      /\ LabelOf(i) = "server_final"
                      /\ i < Len(calls)
                      /\ calls[i + 1].out = "ok"
    /\ ret = "False"

(***************************************************************************)
(* Proxy settings                                                           *)
(***************************************************************************)
\* the lines printed about the proxy: lines 105, 107 and 87
ProxyMessages ==
    {"proxy_enabled", "proxy_auth", "proxy_invalid:bad_format",
     "proxy_invalid:bad_port"}

\* the parts the run's proxy string was put together from
IsProxyString(t) == environ["ALL_PROXY"] = Some(ProxyText(t))

ProxyResolved == pc \notin {"L70", "L83"}

\* C12: for every proxy string that embeds a password, parsed or rejected as
\* malformed, the password is part of none of the lines printed about the
\* proxy (the proxy-enabled line, the proxy-authentication line, the
\* proxy-format error line).
C12_PasswordNeverLogged ==
    \A t \in ProxyParts :
        (IsProxyString(t) /\ Truthy(t.user.password)) =>
            \A i \in 1..Len(log) :
                log[i].msg \in ProxyMessages =>
                    ~Contains(log[i].arg, Val(t.user.password))

\* a proxy string without a port: no ':' after the host, or nothing after it
LacksPort(t) == t.port = None \/ Val(t.port) = <<>>

\* a proxy string that gives no scheme, host and port: no port, no host, a
\* scheme that is no URL scheme, a port that is no number below 65536
Unparsable(t) ==
    \/ LacksPort(t)
    \/ t.host = <<>>
    \/ ~t.scheme.valid
    \/ \E i \in 1..Len(Val(t.port)) : Val(t.port)[i] \notin Digits
    \/ ToInt(Val(t.port)) > 65535

ProxyRejected ==
    Logged("proxy_invalid:bad_format") \/ Logged("proxy_invalid:bad_port")

\* C13: a non-empty proxy string that lacks a port, or gives no scheme, host
\* and port for another reason, makes _playwright_proxy_config raise
\* ValueError, and the run prints the proxy error and ends in failure before
\* the launch: no call into the browser is ever made.
C13_MalformedProxyFailsBeforeLaunch ==
    \A t \in ProxyParts :
        (IsProxyString(t) /\ ProxyText(t) # <<>> /\ Unparsable(t)) =>
            /\ _playwright_proxy_config(
                   _get_proxy_server_from_env(environ)).kind = "ValueError"
            /\ calls = <<>>
            /\ pc \in {"L70", "L83", "L244", "done"}
            /\ ~Logged("proxy_enabled")
            /\ ProxyResolved => (ProxyRejected /\ ret = "False")
            /\ pc = "done" => exit_code = <<1>>

C13_Witness ==
    /\ pc = "done"
    /\ exit_code = <<1>>
    /\ calls = <<>>
    /\ Logged("proxy_invalid:bad_format")
    /\ \E t \in ProxyParts :
           /\ IsProxyString(t)
           /\ t.port = None
           /\ t.host = <<"h">>
           /\ t.scheme.valid

\* a value that is unset, empty or only whitespace
Blank(v) == v = None \/ \A i \in 1..Len(Val(v)) : IsSpace(Val(v)[i])

AllBlank == \A i \in 1..Len(ProxyKeys) : Blank(environ[ProxyKeys[i]])

\* the first key, in the order of lines 19-24, whose value is not blank
Winner ==
    CHOOSE i \in 1..Len(ProxyKeys) :
        /\ ~Blank(environ[ProxyKeys[i]])
        /\ \A j \in 1..(i - 1) : Blank(environ[ProxyKeys[j]])

\* core is raw without the whitespace around it
Trimmed(raw, core) ==
    /\ core # <<>>
    /\ ~IsSpace(core[1])
    /\ ~IsSpace(core[Len(core)])
    /\ \E a \in 0..Len(raw) :
           /\ a + Len(core) <= Len(raw)
           /\ SubSeq(raw, a + 1, a + Len(core)) = core
           /\ \A j \in 1..Len(raw) :
                  (j <= a \/ j > a + Len(core)) => IsSpace(raw[j])

\* C14 as stated: the scan returns the value of the first non-blank variable
\* of SOCKS5_PROXY, ALL_PROXY, HTTPS_PROXY, https_proxy, HTTP_PROXY,
\* http_proxy, and nothing exactly when all six are blank.
C14_AsStated ==
    ProxyResolved =>
        _get_proxy_server_from_env(environ) =
            IF AllBlank THEN None ELSE environ[ProxyKeys[Winner]]

\* C14: the scan returns the value, without the whitespace around it, of the
\* first non-blank variable in the order SOCKS5_PROXY, ALL_PROXY, HTTPS_PROXY,
\* https_proxy, HTTP_PROXY, http_proxy (a blank variable before it does not
\* shadow it, a variable after it does not override it), and nothing exactly
\* when all six are blank; the launch is told the proxy of that value.
C14_FirstNonBlankStripped ==
    LET r == _get_proxy_server_from_env(environ)
    IN  /\ AllBlank <=> r = None
        /\ ~AllBlank => /\ r # None
                        /\ Trimmed(Val(environ[ProxyKeys[Winner]]), Val(r))
        /\ \A i \in 1..Len(log) :
               log[i].msg = "proxy_enabled" =>
                   /\ ~AllBlank
                   /\ Trimmed(Val(environ[ProxyKeys[Winner]]),
                              From(log[i].arg, Len(Socks5h \o SchemeSep) + 1))
        /\ (CalledOp("launch") /\ ~AllBlank) => Logged("proxy_enabled")

C14_Witness ==
    /\ environ["SOCKS5_PROXY"] = Some(<<" ">>)
    /\ environ["ALL_PROXY"] = None
    /\ environ["HTTPS_PROXY"] = Some(<<>>)
    /\ environ["https_proxy"] = Some(<<" ", "h", ":", "5", " ">>)
    /\ environ["HTTP_PROXY"] = Some(<<"h", ":", "1">>)
    /\ CalledOp("launch")
    /\ proxy_cfg.server = Socks5h \o SchemeSep \o <<"h", ":", "5">>

\* a proxy string [scheme://][user:pass@]host:port
WellFormed(t) ==
    /\ t.scheme.valid
    /\ t.user.username = None <=> t.user.password = None
    /\ Truthy(t.user.username) <=> Truthy(t.user.password)
    /\ t.host # <<>>
    /\ t.port # None
    /\ Val(t.port) # <<>>
    /\ \A i \in 1..Len(Val(t.port)) : Val(t.port)[i] \in Digits

\* the parts of the server line 50 builds, for the parts of the model
LowerCased(s) ==
    CASE s = <<"H">> -> <<"h">>
      [] s = <<"S">> -> <<"s">>
      [] OTHER -> s

Decimal(p) ==
    CASE p = <<"0", "8">> -> <<"8">>
      [] OTHER -> p

InRange(p) == p \in {<<"1">>, <<"0", "8">>}

\* server is scheme://host:port with none of the three empty
ThreeParts(server) ==
    \E a, b \in 1..Len(server) :
        /\ a > 1
        /\ a + 2 <= Len(server)
        /\ SubSeq(server, a, a + 2) = SchemeSep
        /\ a + 3 < b
        /\ server[b] = ":"
        /\ b < Len(server)

\* C15 as stated: every well-formed [scheme://][user:pass@]host:port resolves
\* to the server scheme://host:port (socks5h without a scheme separator), with
\* the embedded username and password as fields (absent when not embedded) and
\* neither of them in the server.
C15_AsStated ==
    \A t \in ProxyParts :
        (IsProxyString(t) /\ WellFormed(t) /\ ProxyResolved) =>
            /\ proxy_cfg.kind = "cfg"
            /\ proxy_cfg.server =
                   t.scheme.scheme \o SchemeSep \o t.host \o <<":">> \o Val(t.port)
            /\ proxy_cfg.username = t.user.username
            /\ proxy_cfg.password = t.user.password
            /\ Truthy(t.user.username) =>
                   ~Contains(proxy_cfg.server, Val(t.user.username))
            /\ Truthy(t.user.password) =>
                   ~Contains(proxy_cfg.server, Val(t.user.password))

\* C15: every proxy string with a valid scheme (or none), a host and a port
\* number from 1 to 65535 resolves to the server scheme://host:port with scheme
\* and host in lower case and the port as a decimal number without leading
\* zeros, the scheme being socks5h without a scheme separator; the username
\* and password fields are the embedded values where these are not empty and
\* are absent otherwise; the server holds no credentials part; scheme, host
\* and port of every resolved config are non-empty.
C15_ResolvedConfig ==
    /\ \A t \in ProxyParts :
           ( /\ IsProxyString(t)
             /\ ProxyResolved
             /\ t.scheme.valid
             /\ t.host # <<>>
             /\ t.port # None
             /\ InRange(Val(t.port)) ) =>
               /\ proxy_cfg.kind = "cfg"
               /\ proxy_cfg.server =
                      LowerCased(t.scheme.scheme) \o SchemeSep \o LowerCased(t.host)
                          \o <<":">> \o Decimal(Val(t.port))
               /\ proxy_cfg.username =
                      IF Truthy(t.user.username) THEN t.user.username ELSE None
               /\ proxy_cfg.password =
                      IF Truthy(t.user.password) THEN t.user.password ELSE None
               /\ ~Contains(proxy_cfg.server, <<"@">>)
    /\ proxy_cfg.kind = "cfg" =>
           /\ ThreeParts(proxy_cfg.server)
           /\ \E t \in ProxyParts :
                  IsProxyString(t) /\ t.host # <<>> /\ t.port # None

C15_Witness ==
    /\ CalledOp("launch")
    /\ \E t \in ProxyParts :
           /\ IsProxyString(t)
           /\ t.scheme.text = <<>>
           /\ t.user.password = Some(<<"p">>)
           /\ t.user.username = Some(<<"u">>)
           /\ t.host = <<"H">>
           /\ t.port = Some(<<"0", "8">>)
    /\ proxy_cfg.server = Socks5h \o SchemeSep \o <<"h", ":", "8">>
    /\ proxy_cfg.username = Some(<<"u">>)
    /\ proxy_cfg.password = Some(<<"p">>)

(***************************************************************************)
(* The cookie login, the account login, the final navigation, the click     *)
(***************************************************************************)
HomeGotoAt(i) == calls[i].op = "goto" /\ calls[i].arg = HomeUrl
GotoAfter(i) == \E j \in Idx : j > i /\ calls[j].op = "goto"

\* C16: the cookie login navigates to the site root, injects the cookie,
\* navigates to the server page and checks for the login page, in this order:
\* the navigation to the site root comes before every other call of the
\* cookie login, the cookie is injected right after that navigation returned,
\* the navigation to the server page follows the injection, and the login page
\* is checked for only after that navigation returned.  A navigation to the
\* site root that times out or raises ends the run in failure with no cookie
\* injected and no navigation after it.
C16_CookieStepOrder ==
    /\ \A i \in Idx :
           HomeGotoAt(i) =>
               /\ Logged("cookie_detected")
               /\ \A j \in 1..(i - 1) :
                      /\ calls[j].op \in {"launch", "new_page", "goto",
                                          "screenshot", "inner_text"}
                      /\ calls[j].op = "goto" => calls[j].arg = IpCheckUrl
    /\ \A i \in Idx :
           calls[i].op = "add_cookies" =>
               /\ i > 1
               /\ calls[i - 1] = Rec("goto", HomeUrl, "ok")
               /\ (calls[i].out = "ok" /\ i < Len(calls)) =>
                      (calls[i + 1].op = "goto" /\ calls[i + 1].arg = server_url)
               /\ calls[i].out # "ok" => ~GotoAfter(i)
    /\ \A i \in Idx :
           (calls[i].op = "count" /\ calls[i].arg = email_selector) =>
               /\ i > 3
               /\ calls[i - 1].op = "url"
               /\ calls[i - 2] = Rec("goto", server_url, "ok")
               /\ calls[i - 3] = Rec("add_cookies", Val(environ["REMEMBER_WEB_COOKIE"]), "ok")
    /\ (CookieRejected \/ CookieAccepted \/ pc = "L147") =>
           \E i \in Idx :
               /\ i < Len(calls)
               /\ calls[i].op = "add_cookies"
               /\ calls[i].out = "ok"
               /\ calls[i + 1] = Rec("goto", server_url, "ok")
    /\ \A i \in Idx :
           (HomeGotoAt(i) /\ calls[i].out # "ok") =>
               /\ ~CalledOp("add_cookies")
               /\ ~GotoAfter(i)
               /\ ~ReportsSuccess
               /\ pc = "done" => exit_code = <<1>>

C16_Witness ==
    /\ pc = "done"
    /\ exit_code = <<0>>
    /\ CookieAccepted
    /\ \E i \in Idx :
           /\ i + 4 <= Len(calls)
           /\ calls[i] = Rec("goto", HomeUrl, "ok")
           /\ calls[i + 1].op = "add_cookies"
           /\ calls[i + 2] = Rec("goto", server_url, "ok")
           /\ calls[i + 3].op = "url"
           /\ calls[i + 4].op = "count"

\* The body of the "if" of line 155 was entered without both email and
\* password: line 157 ran.
EnteredWithoutPair == Logged("cookie_invalid_no_credentials")

\* C17: the account login needs both email and password.  A run without both
\* never navigates to the login page and never waits for, fills or submits the
\* login form; when it enters the account login (which it does once its token
\* was rejected and the cookies were cleared), it prints the error of line 157
\* and ends in failure, with no call but browser.close() after it.
C17_IncompletePairFails ==
    /\ ~PairConfigured =>
           /\ ~Called("goto", login_url)
           /\ ~CalledOp("wait_visible")
           /\ ~CalledOp("fill")
           /\ ~Called("click", login_button_selector)
           /\ ~Logged("visit_login")
           /\ pc \notin CredentialPcs
    /\ (~PairConfigured /\ ClearCookiesOk /\ pc # "L155") => EnteredWithoutPair
    /\ EnteredWithoutPair =>
           /\ ~PairConfigured
           /\ TokenConfigured
           /\ CookieRejected
           /\ pc \in {"L239", "L244", "done"}
           /\ calls[Len(calls)].op \in {"clear_cookies", "close"}
           /\ NCalls("close", <<>>) = 0 => calls[Len(calls)].op = "clear_cookies"
           /\ ~ReportsSuccess
           /\ pc \in {"L244", "done"} => ret \in {"False", "raise"}
           /\ pc = "done" => exit_code = <<1>>

C17_Witness ==
    /\ pc = "done"
    /\ EnteredWithoutPair
    /\ TokenConfigured
    /\ Truthy(environ["PTERODACTYL_EMAIL"])
    /\ ~Truthy(environ["PTERODACTYL_PASSWORD"])
    /\ exit_code = <<1>>

\* The button is being looked up (line 205) or a call on it was made.
ButtonLookedUp ==
    \/ pc = "L205"
    \/ Logged("wait_button")
    \/ \E i \in Idx : calls[i].arg = add_button

\* The navigation of line 197 returned.
FinalGotoOk ==
    \E i \in Idx :
        /\ calls[i] = Rec("goto", server_url, "ok")
        /\ LabelOf(i) = "server_final"

\* C18: the button is looked up only after one of the logins succeeded and
\* either the page URL is the server URL with no further navigation, or the
\* navigation to the server page (made because the URL was another one)
\* returned and did not land on the login route.  When that navigation lands
\* on the login route the run prints so, asks for the screenshot
\* server_page_nav_fail.png and ends in failure, and the button is never
\* waited for, probed or clicked.
C18_ServerPageBeforeButton ==
    /\ pc = "L197" => page_url # server_url
    /\ ButtonLookedUp =>
           /\ Authenticated
           /\ \/ ~Logged("navigate_server") /\ page_url = server_url
              \/ /\ Logged("navigate_server")
                 /\ FinalGotoOk
                 /\ ~HasLoginRoute(page_url)
    /\ Logged("nav_back_to_login") =>
           /\ FinalGotoOk
           /\ HasLoginRoute(page_url)
           /\ ~ButtonLookedUp
           /\ ~CalledOp("wait_for")
           /\ ~CalledOp("click_trial")
           /\ ~Called("click", add_button)
           /\ pc \in {"L201", "L235", "L239", "L244", "done"}
           /\ pc # "L201" => Called("screenshot", <<"server_page_nav_fail.png">>)
           /\ ~ReportsSuccess
           /\ pc = "done" => exit_code = <<1>>

C18_Witness ==
    /\ pc = "done"
    /\ Logged("nav_back_to_login")
    /\ \E i \in Idx : calls[i] = Rec("screenshot", <<"server_page_nav_fail.png">>, "ok")
    /\ ret = "False"
    /\ exit_code = <<1>>

NotClickablePath == <<"add_time_button_not_clickable.png">>

WaitTimedOutAt(i) == calls[i].op = "wait_for" /\ calls[i].out = "timeout"

ProbeTimedOut == \E i \in Idx : calls[i].op = "click_trial" /\ calls[i].out = "timeout"

\* C19 as stated: a button that does not show within the wait bound gives a
\* result of its own, the not-clickable report being kept for a probe that
\* failed; the finished run has the screenshot and has made the markup
\* diagnostic, and neither the probe nor the click was tried.
C19_AsStated ==
    /\ (NotClickableReported \/ Called("screenshot", NotClickablePath)) => ProbeTimedOut
    /\ \A i \in Idx :
           WaitTimedOutAt(i) =>
               /\ ~CalledOp("click_trial")
               /\ ~Called("click", add_button)
               /\ pc = "done" =>
                      /\ \E j \in Idx : calls[j] = Rec("screenshot", NotClickablePath, "ok")
                      /\ CalledOp("content")

\* C19: a button that does not show within the wait bound is reported by the
\* handler of line 223, the one that reports a failed probe too, with the same
\* line and the same screenshot name; the screenshot is the next call, the
\* markup diagnostic the call after it when the screenshot returned and none
\* when it raised; the button is not scrolled to, probed or clicked, and the
\* run ends in failure.
C19_WaitTimeout ==
    \A i \in Idx :
        WaitTimedOutAt(i) =>
            /\ NotClickableReported
            /\ ~CalledOp("scroll_into_view")
            /\ ~CalledOp("click_trial")
            /\ ~Called("click", add_button)
            /\ i < Len(calls) =>
                   /\ calls[i + 1].op = "screenshot"
                   /\ calls[i + 1].arg = NotClickablePath
                   /\ pc # "L224"
            /\ (i < Len(calls) /\ calls[i + 1].out = "ok" /\ pc # "L228") =>
                   /\ i + 1 < Len(calls)
                   /\ calls[i + 2].op = "content"
                   /\ pending = "False"
            /\ (i < Len(calls) /\ calls[i + 1].out # "ok") => ~CalledOp("content")
            /\ ~ReportsSuccess
            /\ pc = "done" => exit_code = <<1>>

C19_Witness ==
    /\ pc = "done"
    /\ \E i \in Idx : WaitTimedOutAt(i)
    /\ \E j \in Idx : calls[j] = Rec("screenshot", NotClickablePath, "ok")
    /\ Logged("debug_contains")
    /\ ret = "False"
    /\ exit_code = <<1>>

(***************************************************************************)
(* Termination                                                              *)
(***************************************************************************)
\* the lines of the run in the order of the source
PcOrder ==
    <<"L70", "L83", "L101", "L111", "L118", "L118s", "L119", "L125", "L129",
      "L129s", "L132", "L143", "L143s", "L147", "L149", "L155", "L161", "L161s",
      "L168", "L169", "L170", "L172", "L173", "L175", "L180", "L185", "L187",
      "L189", "L195", "L197", "L197s", "L199", "L201", "L205", "L210", "L213",
      "L216", "L224", "L228", "L235", "L239", "L244", "done">>

Rank(p) == CHOOSE i \in 1..Len(PcOrder) : PcOrder[i] = p

\* C20: every run ends (the process exits with status 0 or 1), whatever the
\* configuration and whatever the collaborator answers; no step goes back to a
\* line before it, so the run has no cycle, and neither the cookie login nor
\* the account login is entered a second time once it was entered.
C20_Terminates ==
    /\ <>(pc = "done" /\ exit_code \in {<<0>>, <<1>>})
    /\ [][Rank(pc') > Rank(pc)]_vars
    /\ [][ /\ (pc \notin CookiePcs /\ pc' \in CookiePcs) =>
                  (pc = "L125" /\ CookieAttempts = 0)
           /\ (pc \notin CredentialPcs /\ pc' \in CredentialPcs) =>
                  (pc = "L155" /\ CredentialAttempts = 0) ]_vars

C20_Witness ==
    /\ pc = "done"
    /\ exit_code = <<0>>
    /\ CookieAttempts = 1
    /\ CredentialAttempts = 1
    /\ ClearCookiesOk

(***************************************************************************)
(* The proxy self-check                                                     *)
(***************************************************************************)
SelfCheckPcs == {"L118", "L118s", "L119"}

\* the run has left the self-check of lines 117-122
PastSelfCheck ==
    /\ PageCreated
    /\ pc \notin {"L70", "L83", "L101", "L111"} \cup SelfCheckPcs

\* the calls of the self-check: the navigation and, unless it raised, the call
\* after it (inner_text, or safe_goto's screenshot)
SelfCheckCalls == IF calls[3].out = "error" THEN 1 ELSE 2

\* every call and read made after the self-check, with what it gave
LaterCalls == SubSeq(calls, 3 + SelfCheckCalls, Len(calls))

\* What decides the next step of the run: the line it is at, whether the token
\* is still held, what the try block is leaving with and what
\* add_server_time ended with.
Control(l, t, p, r) == [pc |-> l, token |-> t, pending |-> p, ret |-> r]

\* lines 155-160
SettleCredential(c) ==
    IF c.token THEN [c EXCEPT !.pc = "L195"]
    ELSE IF PairConfigured THEN [c EXCEPT !.pc = "L161"]
    ELSE [c EXCEPT !.pc = "L239", !.pending = "False"]

\* the steps that make no call and read nothing: lines 125-126, 155-160, 244
Settle(c) ==
    CASE c.pc = "L125" ->
             IF c.token THEN [c EXCEPT !.pc = "L129"] ELSE SettleCredential(c)
      [] c.pc = "L155" -> SettleCredential(c)
      [] c.pc = "done" -> [c EXCEPT !.pc = "L244"]
      [] OTHER -> c

Shot(label) == [op |-> "screenshot", arg |-> <<label, "_goto_timeout.png">>]
On(op, arg) == [op |-> op, arg |-> arg]

\* the call or read the run makes at a line
ExpectedCall(l) ==
    CASE l = "L129"  -> On("goto", HomeUrl)
      [] l = "L129s" -> Shot("home")
      [] l = "L132"  -> On("add_cookies", Val(environ["REMEMBER_WEB_COOKIE"]))
      [] l = "L143"  -> On("goto", server_url)
      [] l = "L143s" -> Shot("server_cookie")
      [] l = "L147"  -> On("url", <<>>)
      [] l = "L147c" -> On("count", email_selector)
      [] l = "L149"  -> On("clear_cookies", <<>>)
      [] l = "L161"  -> On("goto", login_url)
      [] l = "L161s" -> Shot("login")
      [] l = "L168"  -> On("wait_visible", email_selector)
      [] l = "L169"  -> On("wait_visible", password_selector)
      [] l = "L170"  -> On("wait_visible", login_button_selector)
      [] l = "L172"  -> On("fill", email_selector)
      [] l = "L173"  -> On("fill", password_selector)
      [] l = "L175"  -> On("click", login_button_selector)
      [] l = "L180"  -> On("wait_detached", email_selector)
      [] l = "L185"  -> On("count", danger)
      [] l = "L187"  -> On("inner_text", danger)
      [] l = "L189"  -> On("screenshot", LoginFailPath)
      [] l = "L195"  -> On("url", <<>>)
      [] l = "L197"  -> On("goto", server_url)
      [] l = "L197s" -> Shot("server_final")
      [] l = "L199"  -> On("url", <<>>)
      [] l = "L201"  -> On("screenshot", <<"server_page_nav_fail.png">>)
      [] l = "L205"  -> On("wait_for", add_button)
      [] l = "L210"  -> On("scroll_into_view", add_button)
      [] l = "L213"  -> On("click_trial", add_button)
      [] l = "L216"  -> On("click", add_button)
      [] l = "L224"  -> On("screenshot", NotClickablePath)
      [] l = "L228"  -> On("content", <<>>)
      [] l = "L235"  -> On("screenshot", <<"general_error.png">>)
      [] l = "L239"  -> On("close", <<>>)
      [] OTHER       -> On("none", <<>>)

To(c, l) == [c EXCEPT !.pc = l]
Leave(c, v) == [c EXCEPT !.pc = "L239", !.pending = v]

\* safe_goto (lines 92-99) and the calls that raise into the handlers of lines
\* 234 and 223
AfterGoto(c, r, okl) ==
    CASE r.out = "ok"      -> To(c, okl)
      [] r.out = "timeout" -> To(c, c.pc \o "s")
      [] OTHER             -> To(c, "L235")
AfterCall(c, r, okl) == IF r.out = "ok" THEN To(c, okl) ELSE To(c, "L235")
AfterShot(c, r) == IF r.out = "ok" THEN Leave(c, "False") ELSE To(c, "L235")
AfterButton(c, r, okl) ==
    CASE r.out = "ok"      -> To(c, okl)
      [] r.out = "timeout" -> To(c, "L224")
      [] OTHER             -> To(c, "L235")

\* where the run goes from a line on what the call or read r of that line gave
After(c, r) ==
    LET l == c.pc
    IN  CASE l = "L129" -> AfterGoto(c, r, "L132")
          [] l \in {"L129s", "L143s", "L161s", "L197s", "L189", "L201"} -> AfterShot(c, r)
          [] l = "L132" -> AfterCall(c, r, "L143")
          [] l = "L143" -> AfterGoto(c, r, "L147")
          [] l = "L147" -> IF HasLoginRoute(r.val) THEN To(c, "L149") ELSE To(c, "L147c")
          [] l = "L147c" ->
                IF r.out # "ok" THEN To(c, "L235")
                ELSE IF r.val[1] > 0 THEN To(c, "L149") ELSE To(c, "L155")
          [] l = "L149" ->
                IF r.out = "ok" THEN [c EXCEPT !.pc = "L155", !.token = FALSE]
                ELSE To(c, "L235")
          [] l = "L161" -> AfterGoto(c, r, "L168")
          [] l = "L168" -> AfterCall(c, r, "L169")
          [] l = "L169" -> AfterCall(c, r, "L170")
          [] l = "L170" -> AfterCall(c, r, "L172")
          [] l = "L172" -> AfterCall(c, r, "L173")
          [] l = "L173" -> AfterCall(c, r, "L175")
          [] l = "L175" -> AfterCall(c, r, "L180")
          [] l = "L180" ->
                CASE r.out = "ok" -> To(c, "L195")
                  [] r.out = "timeout" ->
                        IF HasLoginRoute(r.val) THEN To(c, "L185") ELSE To(c, "L195")
                  [] OTHER -> To(c, "L235")
          [] l = "L185" ->
                IF r.out # "ok" THEN To(c, "L235")
                ELSE IF r.val[1] > 0 THEN To(c, "L187") ELSE To(c, "L189")
          [] l = "L187" -> AfterCall(c, r, "L189")
          [] l = "L195" -> IF r.val # server_url THEN To(c, "L197") ELSE To(c, "L205")
          [] l = "L197" -> AfterGoto(c, r, "L199")
          [] l = "L199" -> IF HasLoginRoute(r.val) THEN To(c, "L201") ELSE To(c, "L205")
          [] l = "L205" -> AfterButton(c, r, "L210")
          [] l = "L210" -> AfterButton(c, r, "L213")
          [] l = "L213" -> AfterButton(c, r, "L216")
          [] l = "L216" ->
                IF r.out = "ok" THEN Leave(c, "True") ELSE AfterButton(c, r, "L216")
          [] l = "L224" -> AfterCall(c, r, "L228")
          [] l = "L228" -> Leave(c, "False")
          [] l = "L235" -> Leave(c, IF r.out = "ok" THEN "False" ELSE "raise")
          [] l = "L239" ->
                [c EXCEPT !.pc = "L244",
                          !.ret = IF r.out = "ok" THEN c.pending ELSE "raise"]

\* The run from control c over the calls s[i], s[i+1], ...: at each line the
\* call made must be the one of that line; "bad" when it is another.
RECURSIVE Replay(_, _, _)
Replay(c, s, i) ==
    IF i > Len(s) THEN Settle(c)
    ELSE LET at == Settle(c)
         IN  IF On(s[i].op, s[i].arg) # ExpectedCall(at.pc) THEN To(at, "bad")
             ELSE Replay(After(at, s[i]), s, i + 1)

\* the run as it leaves the self-check, whatever the self-check did
LeavingSelfCheck == Control("L125", TokenConfigured, "none", "none")

\* C11: the self-check does not affect the outcome.  Once the run has left the
\* self-check, the line it is at, whether it still holds the token, and what
\* it returns are those of a run that leaves the self-check with nothing
\* changed and then gets the same answers from the collaborator: each call
\* made after the self-check is the one that run makes, and the exit status is
\* the one of its result.  How the self-check ended (address read, timeout,
\* exception) is no input of that run.
C11_SelfCheckNoEffect ==
    PastSelfCheck =>
        /\ Replay(LeavingSelfCheck, LaterCalls, 1) =
               Settle(Control(pc, Truthy(remember_web_cookie), pending, ret))
        /\ exc # <<>> => Len(LaterCalls) > 0
        /\ pc = "done" => exit_code = IF ret = "True" THEN <<0>> ELSE <<1>>

C11_Witness ==
    /\ pc = "done"
    /\ Logged("selfcheck_skipped")
    /\ calls[3] = Rec("goto", IpCheckUrl, "timeout")
    /\ calls[4].out = "error"
    /\ exit_code = <<0>>

====
